---- MODULE Spec2Model ----
(***************************************************************************)
(* AutoNAT v2 request/response messages                                    *)
(* (protocols/autonatv2/src/request_response.rs).                          *)
(*                                                                         *)
(* The module models the three message kinds (Request, Response,           *)
(* DialBack), their protobuf encoding and decoding at the level of bytes,  *)
(* the length-prefixed framing done by read_from / write_into, the         *)
(* process-wide OnceLock that caches the encoding of a full padding chunk, *)
(* and DialDataRequest::from_rng.                                          *)
(*                                                                         *)
(* Integers of the program are 32 or 64 bits wide.  They are modelled as   *)
(* bit vectors (sequences of 0/1, least significant bit first), so that    *)
(* u64::MAX and the truncating casts `as u32` / `as usize` are exact.      *)
(* Lengths and byte counts, which stay small, are naturals.                *)
(***************************************************************************)
EXTENDS Naturals, Sequences, FiniteSets

(***************************************************************************)
(* Program constants.                                                      *)
(***************************************************************************)
REQUEST_MAX_SIZE == 4104

DATA_LEN_LOWER_BOUND == 30000

DATA_LEN_UPPER_BOUND == 100000

\* The chunk bound set to twice its value.
DATA_FIELD_LEN_UPPER_BOUND_doubled == 2 * 4096

DATA_FIELD_LEN_UPPER_BOUND == 4096

DIAL_BACK_MAX_SIZE == 10

\* The maximum length read_from! hands to read_length_prefixed.
READ_FROM_MAX_SIZE == 1024

\* Width of usize on the modelled (64-bit) build.
UsizeBits == 64

(***************************************************************************)
(* Bit vectors.                                                            *)
(***************************************************************************)
\* A function on 1..n as the sequence it is.
Seq_(f) == f \o <<>>

Pow2(n) == 2 ^ n

\* The w-bit vector of the natural n (n < 2^31).
ToBits(n, w) == Seq_([i \in 1..w |-> IF i <= 31 THEN (n \div Pow2(i - 1)) % 2 ELSE 0])

\* The w-bit vector with every bit set (u32::MAX, u64::MAX).
AllOnes(w) == Seq_([i \in 1..w |-> 1])

\* The w-bit vector of 2^k.
OneBit(k, w) == Seq_([i \in 1..w |-> IF i = k + 1 THEN 1 ELSE 0])

\* Bits from..to of b, as a natural (to - from <= 30).
RECURSIVE BitsToNat(_, _, _)
BitsToNat(b, from, to) ==
    IF from > to THEN 0
    ELSE IF from = to THEN (IF from <= Len(b) THEN b[from] ELSE 0)
    ELSE BitsToNat(b, from, (from + to) \div 2)
         + Pow2(((from + to) \div 2) + 1 - from)
           * BitsToNat(b, ((from + to) \div 2) + 1, to)

\* Whether the value of b fits in a natural below 2^31.
FitsNat(b) == \A i \in 1..Len(b) : i > 31 => b[i] = 0

ToNat(b) == BitsToNat(b, 1, 31)

\* `x as uN`: keep the low w bits, zero-extend to w bits.
Cast(b, w) == Seq_([i \in 1..w |-> IF i <= Len(b) THEN b[i] ELSE 0])

\* Index of the highest set bit (0 when the value is 0).
HighBit(b) ==
    LET set == {i \in 1..Len(b) : b[i] = 1}
    IN  IF set = {} THEN 0 ELSE CHOOSE i \in set : \A j \in set : j <= i

Zeros(n) == Seq_([i \in 1..n |-> 0])

(***************************************************************************)
(* Option<T>: <<>> is None, <<v>> is Some(v).                              *)
(***************************************************************************)
None == <<>>

Some(v) == <<v>>

Opt(S) == {None} \cup {Some(v) : v \in S}

(***************************************************************************)
(* quick_protobuf::Writer and sizeofs: varints, fixed64, tags,             *)
(* length-delimited fields.  Bytes are naturals in 0..255.                 *)
(***************************************************************************)
ShiftRight7(b) == Seq_([i \in 1..Len(b) |-> IF i + 7 <= Len(b) THEN b[i + 7] ELSE 0])

\* Writer::write_varint: seven bits per byte, low group first, the top bit
\* of a byte set while more groups follow.
RECURSIVE write_varint(_)
write_varint(b) ==
    IF HighBit(b) <= 7 THEN <<BitsToNat(b, 1, 7)>>
    ELSE <<BitsToNat(b, 1, 7) + 128>> \o write_varint(ShiftRight7(b))

\* sizeofs::sizeof_varint: the number of bytes of the varint of b.
sizeof_varint(b) ==
    LET h == HighBit(b)
    IN  IF h <= 7 THEN 1
        ELSE IF h <= 14 THEN 2
        ELSE IF h <= 21 THEN 3
        ELSE IF h <= 28 THEN 4
        ELSE IF h <= 35 THEN 5
        ELSE IF h <= 42 THEN 6
        ELSE IF h <= 49 THEN 7
        ELSE IF h <= 56 THEN 8
        ELSE IF h <= 63 THEN 9
        ELSE 10

\* sizeofs::sizeof_len: a length prefix followed by that many bytes.
sizeof_len(n) == sizeof_varint(ToBits(n, 64)) + n

\* Writer::write_fixed64: eight bytes, little endian.
write_fixed64(b) == Seq_([k \in 1..8 |-> BitsToNat(b, 8 * (k - 1) + 1, 8 * k)])

\* Writer::write_tag: the key of a field, (field number << 3) | wire type.
write_tag(field, wiretype) == write_varint(ToBits(field * 8 + wiretype, 32))

\* Writer::write_bytes / write_message under write_with_tag: wire type 2.
write_delimited(field, body) ==
    write_tag(field, 2) \o write_varint(ToBits(Len(body), 64)) \o body

(***************************************************************************)
(* quick_protobuf::BytesReader.  A read returns [ok, val, pos] (pos is     *)
(* the reader's start after the read) or [ok |-> FALSE, err].              *)
(***************************************************************************)
Ok(v) == [ok |-> TRUE, val |-> v]

Err(e) == [ok |-> FALSE, err |-> e]

ReadOk(v, p) == [ok |-> TRUE, val |-> v, pos |-> p]

BitOfByte(byte, j) == (byte \div Pow2(j)) % 2

\* BytesReader::read_varint64: up to ten bytes, the first byte below 128
\* ends the varint; the result keeps the low 64 bits.
read_varint(bytes, pos) ==
    LET ends == {k \in 1..10 :
                    /\ pos + k - 1 <= Len(bytes)
                    /\ bytes[pos + k - 1] < 128
                    /\ \A j \in 1..(k - 1) : bytes[pos + j - 1] >= 128}
    IN  IF ends = {}
        THEN IF pos + 9 <= Len(bytes) THEN Err("Varint")
             ELSE Err("UnexpectedEndOfBuffer")
        ELSE LET n == CHOOSE k \in ends : TRUE
             IN  ReadOk(Seq_([i \in 1..64 |->
                                 IF (i - 1) \div 7 < n
                                 THEN BitOfByte(bytes[pos + ((i - 1) \div 7)], (i - 1) % 7)
                                 ELSE 0]),
                        pos + n)

\* BytesReader::read_fixed64.
read_fixed64(bytes, pos) ==
    IF pos + 7 > Len(bytes) THEN Err("UnexpectedEndOfBuffer")
    ELSE ReadOk(Seq_([i \in 1..64 |->
                         BitOfByte(bytes[pos + ((i - 1) \div 8)], (i - 1) % 8)]),
                pos + 8)

\* BytesReader::read_len_varint: a length (read as a u32) and the end of
\* the delimited region, which must lie inside the buffer.
read_len(bytes, pos) ==
    LET Region(l) ==
            IF ~l.ok THEN l
            ELSE IF ~FitsNat(Cast(l.val, 32)) THEN Err("UnexpectedEndOfBuffer")
            ELSE IF l.pos - 1 + ToNat(Cast(l.val, 32)) > Len(bytes)
                 THEN Err("UnexpectedEndOfBuffer")
            ELSE ReadOk(ToNat(Cast(l.val, 32)), l.pos)
    IN  Region(read_varint(bytes, pos))

\* One field of a message: its number, its wire type and its payload (the
\* bits of a varint or fixed64, the bytes of a delimited field).  A field a
\* message does not know is skipped by BytesReader::read_unknown, which
\* reads it by its wire type in the same way.
read_field(bytes, pos) ==
    LET Scalar(num, wt, v) ==
            IF ~v.ok THEN v
            ELSE ReadOk([num |-> num, wt |-> wt, val |-> v.val], v.pos)
        Delimited(num, wt, l) ==
            IF ~l.ok THEN l
            ELSE ReadOk([num |-> num, wt |-> wt,
                         val |-> SubSeq(bytes, l.pos, l.pos + l.val - 1)],
                        l.pos + l.val)
        Payload(num, wt, at) ==
            CASE wt = 0 -> Scalar(num, wt, read_varint(bytes, at))
              [] wt = 1 -> Scalar(num, wt, read_fixed64(bytes, at))
              [] wt = 2 -> Delimited(num, wt, read_len(bytes, at))
              [] wt = 5 ->
                   IF at + 3 > Len(bytes) THEN Err("UnexpectedEndOfBuffer")
                   ELSE ReadOk([num |-> num, wt |-> wt, val |-> <<>>], at + 4)
              [] wt \in {3, 4} -> Err("Deprecated")
              [] OTHER -> Err("UnknownWireType")
        Tagged(t) ==
            IF ~t.ok THEN t
            ELSE Payload(BitsToNat(t.val, 4, 32), BitsToNat(t.val, 1, 3), t.pos)
    IN  Tagged(read_varint(bytes, pos))

\* The loop `while !r.is_eof() { match r.next_tag(bytes) ... }` of a
\* generated from_reader: the fields of the buffer in order, or the first
\* error.
RECURSIVE read_fields(_, _, _)
read_fields(bytes, pos, acc) ==
    LET More(f) == IF ~f.ok THEN f
                   ELSE read_fields(bytes, f.pos, Append(acc, f.val))
    IN  IF pos = Len(bytes) + 1 THEN Ok(acc) ELSE More(read_field(bytes, pos))

(***************************************************************************)
(* The generated protobuf structs (crate::generated::structs).  Every      *)
(* field is optional on the wire; Message is a one-of over four cases, and *)
(* [case |-> "None"] is the message with no case populated.                *)
(*                                                                         *)
(*   Message          dialRequest = 1, dialResponse = 2,                   *)
(*                    dialDataRequest = 3, dialDataResponse = 4            *)
(*   DialRequest      repeated bytes addrs = 1, fixed64 nonce = 2          *)
(*   DialResponse     status = 1, uint32 addrIdx = 2, dialStatus = 3       *)
(*   DialDataRequest  uint32 addrIdx = 1, uint64 numBytes = 2              *)
(*   DialDataResponse bytes data = 1                                       *)
(*   DialBack         fixed64 nonce = 1                                    *)
(***************************************************************************)
ResponseStatus == {"E_INTERNAL_ERROR", "E_REQUEST_REJECTED", "E_DIAL_REFUSED", "OK"}

DialStatus == {"UNUSED", "E_DIAL_ERROR", "E_DIAL_BACK_ERROR", "OK"}

\* The number of an enum value (both enums use 0, 100, 101, 200).
EnumNumber(e) ==
    CASE e \in {"E_INTERNAL_ERROR", "UNUSED"} -> 0
      [] e \in {"E_REQUEST_REJECTED", "E_DIAL_ERROR"} -> 100
      [] e \in {"E_DIAL_REFUSED", "E_DIAL_BACK_ERROR"} -> 101
      [] OTHER -> 200

\* From<i32> of an enum: the value with that number, the default (number 0)
\* for any other number.
EnumFromBits(b, enum) ==
    LET hit == {e \in enum : ToBits(EnumNumber(e), 32) = Cast(b, 32)}
    IN  IF hit = {} THEN CHOOSE e \in enum : EnumNumber(e) = 0
        ELSE CHOOSE e \in hit : TRUE

\* A varint field: the tag and the value, nothing when the field is None.
WriteVarintField(field, opt) ==
    IF opt = None THEN <<>> ELSE write_tag(field, 0) \o write_varint(opt[1])

WriteEnumField(field, opt) ==
    IF opt = None THEN <<>>
    ELSE write_tag(field, 0) \o write_varint(ToBits(EnumNumber(opt[1]), 64))

WriteFixed64Field(field, opt) ==
    IF opt = None THEN <<>> ELSE write_tag(field, 1) \o write_fixed64(opt[1])

SizeVarintField(opt) == IF opt = None THEN 0 ELSE 1 + sizeof_varint(opt[1])

SizeEnumField(opt) ==
    IF opt = None THEN 0 ELSE 1 + sizeof_varint(ToBits(EnumNumber(opt[1]), 64))

RECURSIVE WriteAddrs(_)
WriteAddrs(addrs) ==
    IF addrs = <<>> THEN <<>>
    ELSE write_delimited(1, Head(addrs)) \o WriteAddrs(Tail(addrs))

RECURSIVE SizeAddrs(_)
SizeAddrs(addrs) ==
    IF addrs = <<>> THEN 0
    ELSE 1 + sizeof_len(Len(Head(addrs))) + SizeAddrs(Tail(addrs))

\* MessageWrite::get_size of the struct inside the one-of (and of DialBack).
InnerSize(m) ==
    CASE m.case = "dialRequest" ->
           SizeAddrs(m.addrs) + (IF m.nonce = None THEN 0 ELSE 1 + 8)
      [] m.case = "dialResponse" ->
           SizeEnumField(m.status) + SizeVarintField(m.addrIdx)
           + SizeEnumField(m.dialStatus)
      [] m.case = "dialDataRequest" ->
           SizeVarintField(m.addrIdx) + SizeVarintField(m.numBytes)
      [] m.case = "dialDataResponse" ->
           IF m.data = None THEN 0 ELSE 1 + sizeof_len(Len(m.data[1]))
      [] m.case = "dialBack" -> IF m.nonce = None THEN 0 ELSE 1 + 8
      [] OTHER -> 0

\* MessageWrite::write_message of the struct inside the one-of (and of
\* DialBack): the fields that are Some, in field order.
InnerWrite(m) ==
    CASE m.case = "dialRequest" ->
           WriteAddrs(m.addrs) \o WriteFixed64Field(2, m.nonce)
      [] m.case = "dialResponse" ->
           WriteEnumField(1, m.status) \o WriteVarintField(2, m.addrIdx)
           \o WriteEnumField(3, m.dialStatus)
      [] m.case = "dialDataRequest" ->
           WriteVarintField(1, m.addrIdx) \o WriteVarintField(2, m.numBytes)
      [] m.case = "dialDataResponse" ->
           IF m.data = None THEN <<>> ELSE write_delimited(1, m.data[1])
      [] m.case = "dialBack" -> WriteFixed64Field(1, m.nonce)
      [] OTHER -> <<>>

OneOfField(case) ==
    CASE case = "dialRequest" -> 1
      [] case = "dialResponse" -> 2
      [] case = "dialDataRequest" -> 3
      [] OTHER -> 4

\* Message::get_size.
Message_get_size(m) ==
    IF m.case = "None" THEN 0 ELSE 1 + sizeof_len(InnerSize(m))

\* Message::write_message: the populated case as a delimited field whose
\* length is the inner struct's get_size; nothing for the empty one-of.
Message_write_message(m) ==
    IF m.case = "None" THEN <<>>
    ELSE write_tag(OneOfField(m.case), 2)
         \o write_varint(ToBits(InnerSize(m), 64)) \o InnerWrite(m)

\* quick_protobuf::serialize_into_vec: the message behind its length.
serialize_into_vec(size, body) == write_varint(ToBits(size, 64)) \o body

\* The last field of `fields` with this number and wire type, as an Option.
LastField(fields, num, wt) ==
    LET at == {i \in 1..Len(fields) : fields[i].num = num /\ fields[i].wt = wt}
    IN  IF at = {} THEN None
        ELSE Some(fields[CHOOSE i \in at : \A j \in at : j <= i].val)

\* read_uint32 / read_uint64 / read_enum of a field that is present.
OptU32(opt) == IF opt = None THEN None ELSE Some(Cast(opt[1], 32))

OptU64(opt) == IF opt = None THEN None ELSE Some(Cast(opt[1], 64))

OptEnum(opt, enum) == IF opt = None THEN None ELSE Some(EnumFromBits(opt[1], enum))

AsU32(b) == Cast(b, 32)

AsU64(b) == Cast(b, 64)

IsAddrField(f) == f.num = 1 /\ f.wt = 2

\* from_reader of the struct inside case `case`, on the bytes of its field.
Inner_from_reader(case, bytes) ==
    LET Struct(fs) ==
            CASE case = "dialRequest" ->
                   [case |-> case,
                    addrs |-> Seq_([i \in 1..Len(SelectSeq(fs, IsAddrField)) |->
                                       SelectSeq(fs, IsAddrField)[i].val]),
                    nonce |-> LastField(fs, 2, 1)]
              [] case = "dialResponse" ->
                   [case |-> case,
                    status |-> OptEnum(LastField(fs, 1, 0), ResponseStatus),
                    addrIdx |-> OptU32(LastField(fs, 2, 0)),
                    dialStatus |-> OptEnum(LastField(fs, 3, 0), DialStatus)]
              [] case = "dialDataRequest" ->
                   [case |-> case,
                    addrIdx |-> OptU32(LastField(fs, 1, 0)),
                    numBytes |-> OptU64(LastField(fs, 2, 0))]
              [] case = "dialDataResponse" ->
                   [case |-> case, data |-> LastField(fs, 1, 2)]
              [] OTHER ->
                   [case |-> "dialBack", nonce |-> LastField(fs, 1, 1)]
        Read(r) == IF ~r.ok THEN r ELSE Ok(Struct(r.val))
    IN  Read(read_fields(bytes, 1, <<>>))

OneOfCase(num) ==
    CASE num = 1 -> "dialRequest"
      [] num = 2 -> "dialResponse"
      [] num = 3 -> "dialDataRequest"
      [] OTHER -> "dialDataResponse"

\* Message::from_reader: every one-of field of the buffer is read as its
\* struct (an error in any of them is the error of the message); the last
\* one is the populated case; other fields are skipped.
Message_from_reader(bytes) ==
    LET OneOf(fs) ==
            Seq_([i \in 1..Len(fs) |->
                     IF fs[i].num \in 1..4 /\ fs[i].wt = 2
                     THEN Inner_from_reader(OneOfCase(fs[i].num), fs[i].val)
                     ELSE Ok([case |-> "None"])])
        Pick(fs, in) ==
            LET at  == {i \in 1..Len(fs) : fs[i].num \in 1..4 /\ fs[i].wt = 2}
                bad == {i \in at : ~in[i].ok}
            IN  IF bad # {} THEN in[CHOOSE i \in bad : \A j \in bad : i <= j]
                ELSE IF at = {} THEN Ok([case |-> "None"])
                ELSE in[CHOOSE i \in at : \A j \in at : j <= i]
        Read(r) == IF ~r.ok THEN r ELSE Pick(r.val, OneOf(r.val))
    IN  Read(read_fields(bytes, 1, <<>>))

\* DialBack::from_reader.
DialBack_from_reader(bytes) == Inner_from_reader("dialBack", bytes)

(***************************************************************************)
(* Multiaddr.  A multiaddress is a byte string that parses as a sequence   *)
(* of protocols, each a varint code followed by its payload; only the      *)
(* codes the model's addresses use are listed (ip4 = 4, tcp = 6, dns = 53, *)
(* udp = 273); any other code is unknown.  The empty byte string is the    *)
(* empty multiaddress.                                                     *)
(***************************************************************************)
ProtocolKnown(code) ==
    code \in {ToBits(4, 64), ToBits(6, 64), ToBits(53, 64), ToBits(273, 64)}

\* Protocol::from_bytes at pos, the code already read: the position after
\* the protocol, or 0 when its payload does not parse.  ip4 has four bytes,
\* tcp and udp two, dns a length and that many bytes of UTF-8 (here ASCII).
ProtocolEnd(code, bytes, pos) ==
    IF code = ToBits(53, 64)
    THEN LET l == read_len(bytes, pos)
         IN  IF l.ok /\ \A i \in l.pos..(l.pos + l.val - 1) : bytes[i] < 128
             THEN l.pos + l.val ELSE 0
    ELSE LET n == IF code = ToBits(4, 64) THEN 4 ELSE 2
         IN  IF pos - 1 + n <= Len(bytes) THEN pos + n ELSE 0

\* The loop of Multiaddr::try_from(Vec<u8>): Protocol::from_bytes until the
\* slice is empty.
RECURSIVE MultiaddrParses(_, _)
MultiaddrParses(bytes, pos) ==
    IF pos = Len(bytes) + 1 THEN TRUE
    ELSE LET c == read_varint(bytes, pos)
         IN  /\ c.ok
             /\ ProtocolKnown(c.val)
             /\ ProtocolEnd(c.val, bytes, c.pos) # 0
             /\ MultiaddrParses(bytes, ProtocolEnd(c.val, bytes, c.pos))

\* Multiaddr::try_from(Vec<u8>): the multiaddress holding these bytes.
Multiaddr_try_from(bytes) ==
    IF MultiaddrParses(bytes, 1) THEN Ok(bytes) ELSE Err("invalid multiaddr")

\* Multiaddr::to_vec.
Multiaddr_to_vec(addr) == addr

(***************************************************************************)
(* libp2p_core::upgrade::{read_length_prefixed, write_length_prefixed}.    *)
(* A stream is the sequence of bytes written to it.                        *)
(***************************************************************************)
IoError(kind, what) == Err([kind |-> kind, what |-> what])

write_length_prefixed(bytes) == write_varint(ToBits(Len(bytes), 64)) \o bytes

\* The length prefix, refused when it exceeds max_size, then exactly that
\* many bytes.
read_length_prefixed(stream, max_size) ==
    IF stream = <<>> THEN Ok(<<>>)
    ELSE LET l == read_varint(stream, 1)
         IN  IF ~l.ok THEN IoError("Io", "invalid length prefix")
             ELSE IF ~FitsNat(l.val) \/ ToNat(l.val) > max_size
                  THEN IoError("Io", "data size exceeds maximum")
             ELSE IF l.pos - 1 + ToNat(l.val) > Len(stream)
                  THEN IoError("Io", "unexpected end of stream")
             ELSE Ok(SubSeq(stream, l.pos, l.pos - 1 + ToNat(l.val)))

(***************************************************************************)
(* The message model and its codec (request_response.rs).                  *)
(*                                                                         *)
(*   Request   [tag |-> "Dial", addrs, nonce] | [tag |-> "Data", data_count]*)
(*   Response  [tag |-> "Dial", status, addr_idx, dial_status]             *)
(*             | [tag |-> "Data", addr_idx, num_bytes]                     *)
(*   DialBack  [nonce]                                                     *)
(*                                                                         *)
(* nonce is a u64, addr_idx and num_bytes are usize (bit vectors);         *)
(* data_count is a usize that stays small (a natural).  An io::Error is    *)
(* [kind, what]: kind "Malformed" for a quick_protobuf error, "MissingField"*)
(* (what: the field), "UnexpectedVariant", "InvalidAddress", and "Io" for  *)
(* the errors of the stream.                                               *)
(***************************************************************************)
DialRequest(addrs, nonce) == [tag |-> "Dial", addrs |-> addrs, nonce |-> nonce]

DialDataResponse(data_count) == [tag |-> "Data", data_count |-> data_count]

DialResponse(status, addr_idx, dial_status) ==
    [tag |-> "Dial", status |-> status, addr_idx |-> addr_idx,
     dial_status |-> dial_status]

DialDataRequest(addr_idx, num_bytes) ==
    [tag |-> "Data", addr_idx |-> addr_idx, num_bytes |-> num_bytes]

DialBack(nonce) == [nonce |-> nonce]

\* A panic of the calling task (a failed assert!, an expect on an Err).
Panic(what) == [ok |-> FALSE, panic |-> what]

\* check_existence! reporting an absent field as a parse error.
check_existence_malformed(field, name) ==
    IF field = None THEN IoError("Malformed", name) ELSE Ok(field[1])

\* check_existence!: Some(v) is v, None is the error "<field> is missing".
check_existence(field, name) ==
    IF field = None THEN IoError("MissingField", name) ELSE Ok(field[1])

\* `x as usize`.
AsUsize(b) == Cast(b, UsizeBits)

\* collect::<Result<Vec<_>, io::Error>>() over Multiaddr::try_from: the
\* multiaddresses, or the error of the first element that does not parse.
CollectAddrs(addrs) ==
    LET bad == {i \in 1..Len(addrs) : ~Multiaddr_try_from(addrs[i]).ok}
    IN  IF bad # {} THEN IoError("InvalidAddress", "invalid multiaddr")
        ELSE Ok(Seq_([i \in 1..Len(addrs) |-> Multiaddr_try_from(addrs[i]).val]))

\* Request::from_bytes checking the nonce before it parses the addresses.
Request_from_bytes_nonce_first(bytes) ==
    LET Dial(addrs, nonce) ==
            IF ~nonce.ok THEN nonce
            ELSE IF ~addrs.ok THEN addrs
            ELSE Ok(DialRequest(addrs.val, nonce.val))
        Data(data) ==
            IF ~data.ok THEN data ELSE Ok(DialDataResponse(Len(data.val)))
        Match(msg) ==
            IF ~msg.ok THEN IoError("Malformed", msg.err)
            ELSE IF msg.val.case = "dialRequest"
            THEN Dial(CollectAddrs(msg.val.addrs),
                      check_existence(msg.val.nonce, "nonce"))
            ELSE IF msg.val.case = "dialDataResponse"
            THEN Data(check_existence(msg.val.data, "data"))
            ELSE IoError("UnexpectedVariant",
                         "expected dialRequest or dialDataResponse")
    IN  Match(Message_from_reader(bytes))

\* Request::from_bytes: the message, then the variant; a Dial request has
\* its addresses parsed before its nonce is looked at.
Request_from_bytes(bytes) ==
    LET Dial(addrs, nonce) ==
            IF ~addrs.ok THEN addrs
            ELSE IF ~nonce.ok THEN nonce
            ELSE Ok(DialRequest(addrs.val, nonce.val))
        Data(data) ==
            IF ~data.ok THEN data ELSE Ok(DialDataResponse(Len(data.val)))
        Match(msg) ==
            IF ~msg.ok THEN IoError("Malformed", msg.err)
            ELSE IF msg.val.case = "dialRequest"
            THEN Dial(CollectAddrs(msg.val.addrs),
                      check_existence(msg.val.nonce, "nonce"))
            ELSE IF msg.val.case = "dialDataResponse"
            THEN Data(check_existence(msg.val.data, "data"))
            ELSE IoError("UnexpectedVariant",
                         "expected dialRequest or dialDataResponse")
    IN  Match(Message_from_reader(bytes))

\* make_message_bytes writing the message behind a length of its own
\* (Writer::write_message in place of MessageWrite::write_message).
make_message_bytes_prefixed(request) ==
    LET Prefixed(msg) ==
            Ok(serialize_into_vec(Message_get_size(msg), Message_write_message(msg)))
    IN  IF request.tag = "Dial"
        THEN Prefixed([case |-> "dialRequest",
                       addrs |-> Seq_([i \in 1..Len(request.addrs) |->
                                          Multiaddr_to_vec(request.addrs[i])]),
                       nonce |-> Some(request.nonce)])
        ELSE IF ~(request.data_count <= DATA_FIELD_LEN_UPPER_BOUND)
        THEN Panic("data_count too large")
        ELSE Prefixed([case |-> "dialDataResponse",
                       data |-> Some(SubSeq(Zeros(DATA_FIELD_LEN_UPPER_BOUND),
                                            1, request.data_count))])

\* The inner fn make_message_bytes of Request::into_bytes: the bytes of the
\* message, or the panic of its assert!.
make_message_bytes(request) ==
    IF request.tag = "Dial"
    THEN Ok(Message_write_message(
                [case |-> "dialRequest",
                 addrs |-> Seq_([i \in 1..Len(request.addrs) |->
                                    Multiaddr_to_vec(request.addrs[i])]),
                 nonce |-> Some(request.nonce)]))
    ELSE IF ~(request.data_count <= DATA_FIELD_LEN_UPPER_BOUND)
    THEN Panic("data_count too large")
    ELSE Ok(Message_write_message(
                [case |-> "dialDataResponse",
                 data |-> Some(SubSeq(Zeros(DATA_FIELD_LEN_UPPER_BOUND),
                                      1, request.data_count))]))

\* The match arm taking every Data request for the cached one.
IsFullChunk_any(request) == request.tag = "Data"

\* matches!(self, Self::Data(DialDataResponse { data_count: 4096 })).
IsFullChunk(request) ==
    request.tag = "Data" /\ request.data_count = DATA_FIELD_LEN_UPPER_BOUND

\* Request::into_bytes run to completion by one caller, given the content
\* of CELL: the result and the content of CELL afterwards.
Request_into_bytes(self, cell) ==
    IF IsFullChunk(self)
    THEN IF cell = None
         THEN [res |-> make_message_bytes(self),
               cell |-> Some(make_message_bytes(self).val)]
         ELSE [res |-> Ok(cell[1]), cell |-> cell]
    ELSE [res |-> make_message_bytes(self), cell |-> cell]

Response_from_bytes(bytes) ==
    LET Dial(status, addr_idx, dial_status) ==
            IF ~status.ok THEN status
            ELSE IF ~addr_idx.ok THEN addr_idx
            ELSE IF ~dial_status.ok THEN dial_status
            ELSE Ok(DialResponse(status.val, AsUsize(addr_idx.val),
                                 dial_status.val))
        Data(addr_idx, num_bytes) ==
            IF ~addr_idx.ok THEN addr_idx
            ELSE IF ~num_bytes.ok THEN num_bytes
            ELSE Ok(DialDataRequest(AsUsize(addr_idx.val),
                                    AsUsize(num_bytes.val)))
        Match(msg) ==
            IF ~msg.ok THEN IoError("Malformed", msg.err)
            ELSE IF msg.val.case = "dialResponse"
            THEN Dial(check_existence(msg.val.status, "status"),
                      check_existence(msg.val.addrIdx, "addrIdx"),
                      check_existence(msg.val.dialStatus, "dialStatus"))
            ELSE IF msg.val.case = "dialDataRequest"
            THEN Data(check_existence(msg.val.addrIdx, "addrIdx"),
                      check_existence(msg.val.numBytes, "numBytes"))
            ELSE IoError("UnexpectedVariant",
                         "expected dialResponse or dialDataRequest")
    IN  Match(Message_from_reader(bytes))

Response_into_bytes(self) ==
    IF self.tag = "Dial"
    THEN Message_write_message(
             [case |-> "dialResponse",
              status |-> Some(self.status),
              addrIdx |-> Some(AsU32(self.addr_idx)),
              dialStatus |-> Some(self.dial_status)])
    ELSE Message_write_message(
             [case |-> "dialDataRequest",
              addrIdx |-> Some(AsU32(self.addr_idx)),
              numBytes |-> Some(AsU64(self.num_bytes))])

\* DialBack::from_bytes with nonce.unwrap_or_default() for check_existence!.
DialBack_from_bytes_default(bytes) ==
    LET Match(msg) ==
            IF ~msg.ok THEN IoError("Malformed", msg.err)
            ELSE IF msg.val.nonce = None THEN Ok(DialBack(ToBits(0, 64)))
            ELSE Ok(DialBack(msg.val.nonce[1]))
    IN  Match(DialBack_from_reader(bytes))

\* DialBack::from_bytes.
DialBack_from_bytes(bytes) ==
    LET Nonce(nonce) == IF ~nonce.ok THEN nonce ELSE Ok(DialBack(nonce.val))
        Match(msg) ==
            IF ~msg.ok THEN IoError("Malformed", msg.err)
            ELSE Nonce(check_existence(msg.val.nonce, "nonce"))
    IN  Match(DialBack_from_reader(bytes))

\* DialBack::write_into handing the whole buffer to write_length_prefixed
\* (&buf in place of &buf[..msg.get_size()]).
DialBack_body_whole_buffer(self) ==
    LET Body(size, written) ==
            IF ~(size <= DIAL_BACK_MAX_SIZE)
            THEN Panic("msg.get_size() <= DIAL_BACK_MAX_SIZE")
            ELSE IF Len(written) > DIAL_BACK_MAX_SIZE
            THEN Panic("encoding to succeed")
            ELSE Ok(SubSeq(written \o Zeros(DIAL_BACK_MAX_SIZE),
                           1, DIAL_BACK_MAX_SIZE))
        Encode(msg) == Body(InnerSize(msg), InnerWrite(msg))
    IN  Encode([case |-> "dialBack", nonce |-> Some(self.nonce)])

\* The body DialBack::write_into hands to write_length_prefixed: the message
\* written into a buffer of DIAL_BACK_MAX_SIZE bytes (a message that does
\* not fit fails the debug_assert!, or the write and its expect), cut to
\* get_size bytes.
DialBack_body(self) ==
    LET Body(size, written) ==
            IF ~(size <= DIAL_BACK_MAX_SIZE)
            THEN Panic("msg.get_size() <= DIAL_BACK_MAX_SIZE")
            ELSE IF Len(written) > DIAL_BACK_MAX_SIZE
            THEN Panic("encoding to succeed")
            ELSE Ok(SubSeq(written \o Zeros(DIAL_BACK_MAX_SIZE), 1, size))
        Encode(msg) == Body(InnerSize(msg), InnerWrite(msg))
    IN  Encode([case |-> "dialBack", nonce |-> Some(self.nonce)])

\* Self::from_bytes of the message kind.
from_bytes(kind, bytes) ==
    CASE kind = "Request" -> Request_from_bytes(bytes)
      [] kind = "Response" -> Response_from_bytes(bytes)
      [] OTHER -> DialBack_from_bytes(bytes)

\* read_from!: one frame of at most READ_FROM_MAX_SIZE bytes, then
\* Self::from_bytes.
read_from(kind, reader) ==
    LET Decode(bytes) == IF ~bytes.ok THEN bytes ELSE from_bytes(kind, bytes.val)
    IN  Decode(read_length_prefixed(reader, READ_FROM_MAX_SIZE))

(***************************************************************************)
(* DialDataRequest::from_rng.  The generator is the sequence of words it   *)
(* yields; a word has RngBits bits.  gen_range is rand's                   *)
(* sample_single_inclusive: a widening multiply of the word by the size of *)
(* the range, the high half being the sample, with the words whose low     *)
(* half falls outside the zone rejected and the next word drawn.           *)
(***************************************************************************)
RngBits == 17

\* The high and low halves of word * range (both below 2^RngBits); the
\* product is formed from the two halves of the word to stay in range.
wmul(word, range) ==
    LET a  == (word \div Pow2(9)) * range
        b  == (word % Pow2(9)) * range
        s  == a + (b \div Pow2(9))
    IN  [hi |-> s \div Pow2(RngBits - 9),
         lo |-> ((s % Pow2(RngBits - 9)) * Pow2(9)) + (b % Pow2(9))]

\* (range << range.leading_zeros()).wrapping_sub(1)
Zone(range) == range * Pow2(RngBits - HighBit(ToBits(range, 31))) - 1

RngAccepts(word, range) == wmul(word, range).lo <= Zone(range)

\* rng.gen_range(low..=high) on the words the generator yields: the sample
\* of the first word that is not rejected.
RECURSIVE gen_range(_, _, _)
gen_range(low, high, words) ==
    IF RngAccepts(Head(words), high - low + 1)
    THEN low + wmul(Head(words), high - low + 1).hi
    ELSE gen_range(low, high, Tail(words))

\* from_rng drawing the width of the range without its lower end.
from_rng_no_offset(addr_idx, words) ==
    DialDataRequest(addr_idx,
                    ToBits(gen_range(0, DATA_LEN_UPPER_BOUND - DATA_LEN_LOWER_BOUND,
                                     words),
                           UsizeBits))

\* DialDataRequest::from_rng.
from_rng(addr_idx, words) ==
    DialDataRequest(addr_idx,
                    ToBits(gen_range(DATA_LEN_LOWER_BOUND, DATA_LEN_UPPER_BOUND, words),
                           UsizeBits))

(***************************************************************************)
(* Bounds of the model and the values it draws.                            *)
(***************************************************************************)
\* Longest address list of a request, apart from the one long list.
MaxAddrs == 2

\* Length of the one long address list.
ManyAddrs == 16

\* Words drawn from the generator by one gen_range, at most.
MaxDraws == 2

\* Number of evenly spaced words the model draws from.
RngSamples == 4

\* Threads calling Request::into_bytes, and calls of each.
NumThreads == 2

MaxCalls == 2

\* Data requests sent in one padding exchange, at most.
MaxSends == 26

Nonces == {ToBits(0, 64), ToBits(42, 64), OneBit(32, 64), AllOnes(64)}

\* /ip4/198.51.100.1/tcp/4242 and /ip4/127.0.0.1/udp/80
Addrs == {<<4, 198, 51, 100, 1, 6, 16, 146>>, <<4, 127, 0, 0, 1, 145, 2, 0, 80>>}

\* Byte strings that are no multiaddress: a truncated ip4, a truncated tcp.
BadAddrs == {<<4, 1, 2>>, <<4, 198, 51, 100, 1, 6, 16>>}

\* /dns/<253 times "a">/tcp/443
LongAddr == <<53, 253, 1>> \o Seq_([i \in 1..253 |-> 97]) \o <<6, 1, 187>>

SeqsUpTo(S, n) == UNION {[1..k -> S] : k \in 0..n}

AddrLists ==
    SeqsUpTo(Addrs, MaxAddrs)
    \cup {Seq_([i \in 1..ManyAddrs |-> LongAddr])}

DataCounts ==
    {0, 1, READ_FROM_MAX_SIZE - 6, READ_FROM_MAX_SIZE - 5,
     DATA_FIELD_LEN_UPPER_BOUND - 1, DATA_FIELD_LEN_UPPER_BOUND,
     DATA_FIELD_LEN_UPPER_BOUND + 1}

\* usize values: 0, 1, u32::MAX, 2^32, usize::MAX.
Indices ==
    {ToBits(0, UsizeBits), ToBits(1, UsizeBits), Cast(AllOnes(32), UsizeBits),
     OneBit(32, UsizeBits), AllOnes(UsizeBits)}

NumBytes ==
    {ToBits(0, UsizeBits), ToBits(DATA_LEN_LOWER_BOUND, UsizeBits),
     ToBits(DATA_LEN_UPPER_BOUND, UsizeBits), OneBit(32, UsizeBits),
     AllOnes(UsizeBits)}

Requests ==
    {DialRequest(a, n) : a \in AddrLists, n \in Nonces}
    \cup {DialDataResponse(c) : c \in DataCounts}

Responses ==
    {DialResponse(s, i, d) : s \in ResponseStatus, i \in Indices, d \in DialStatus}
    \cup {DialDataRequest(i, n) : i \in Indices, n \in NumBytes}

DialBacks == {DialBack(n) : n \in Nonces}

\* What a peer may put on the stream: any message of the schema, with any
\* of its optional fields absent and with byte strings in addrs that are
\* no multiaddress, a DialBack, or bytes that are no message at all.
PeerMessages ==
    {[case |-> "None"]}
    \cup {[case |-> "dialRequest", addrs |-> a, nonce |-> n] :
            a \in SeqsUpTo(Addrs \cup BadAddrs, MaxAddrs),
            n \in Opt({ToBits(42, 64), AllOnes(64)})}
    \cup {[case |-> "dialResponse", status |-> s, addrIdx |-> i, dialStatus |-> d] :
            s \in Opt({"OK", "E_DIAL_REFUSED"}),
            i \in Opt({ToBits(0, 32), AllOnes(32)}),
            d \in Opt({"OK", "E_DIAL_ERROR"})}
    \cup {[case |-> "dialDataRequest", addrIdx |-> i, numBytes |-> n] :
            i \in Opt({ToBits(0, 32), AllOnes(32)}),
            n \in Opt({ToBits(DATA_LEN_LOWER_BOUND, 64), AllOnes(64)})}
    \cup {[case |-> "dialDataResponse", data |-> d] :
            d \in Opt({Zeros(0), Zeros(3)})}
    \cup {[case |-> "dialBack", nonce |-> n] : n \in Opt(Nonces)}
    \cup {[case |-> "raw", bytes |-> b] :
            b \in {<<10>>, <<10, 3, 17>>, <<128>>, <<11, 0>>, <<17, 1, 2>>}}

\* The bytes of a peer's message.
PeerBytes(m) ==
    CASE m.case = "raw" -> m.bytes
      [] m.case = "dialBack" -> InnerWrite(m)
      [] OTHER -> Message_write_message(m)

RngWords ==
    {(i * Pow2(RngBits)) \div RngSamples : i \in 0..(RngSamples - 1)}
    \cup {1, Pow2(RngBits) - 1}

\* The word sequences one gen_range may consume: some word is accepted.
RngDraws ==
    {w \in UNION {[1..k -> RngWords] : k \in 1..MaxDraws} :
        \E i \in 1..Len(w) :
            RngAccepts(w[i], DATA_LEN_UPPER_BOUND - DATA_LEN_LOWER_BOUND + 1)}

Threads == 1..NumThreads

\* The requests the threads encode: the one that is cached, and others.
CacheRequests ==
    {DialDataResponse(DATA_FIELD_LEN_UPPER_BOUND),
     DialDataResponse(DATA_FIELD_LEN_UPPER_BOUND - 1),
     DialRequest(<<>>, ToBits(42, 64))}

\* data_count of the Data requests of a padding exchange; the last one is
\* the internal misuse the assert! of make_message_bytes is there for.
PaddingCounts ==
    {1, DATA_FIELD_LEN_UPPER_BOUND, DATA_FIELD_LEN_UPPER_BOUND + 1}

\* A DialDataRequest of a verifier that is another implementation: sixteen
\* full chunks.
PeerDemands ==
    {DialDataRequest(ToBits(0, UsizeBits),
                     ToBits(16 * DATA_FIELD_LEN_UPPER_BOUND, UsizeBits))}

Kinds == {"Request", "Response", "DialBack"}

(***************************************************************************)
(* State.                                                                  *)
(*                                                                         *)
(*   cell     CELL, the OnceLock of Request::into_bytes (None until set)   *)
(*   inits    how many times CELL's initialiser has run to completion      *)
(*   sent     what was last written to the stream: by whom ("write_into",  *)
(*            "peer" or "nobody"), the message kind, the value, the body   *)
(*            (the result of encoding) and the bytes on the stream         *)
(*   got      the result of the last from_bytes / read_from                *)
(*   pc, req, ret    per thread: where it is in Request::into_bytes, the   *)
(*            request it encodes and the bytes it returned                 *)
(*   calls    calls of into_bytes each thread has made                     *)
(*   demand   the verifier's DialDataRequest and the index it was asked for*)
(*   need     num_bytes of the DialDataRequest the requester is answering  *)
(*            (None outside a padding exchange)                            *)
(*   sends, total   the padding exchange: Data requests put on the stream  *)
(*            and the padding bytes they carry                             *)
(***************************************************************************)
VARIABLES cell, inits, sent, got, pc, req, ret, calls, demand, need, sends,
          total

vars == <<cell, inits, sent, got, pc, req, ret, calls, demand, need, sends,
          total>>

channel == <<sent, got>>

threads == <<pc, req, ret, calls>>

padding == <<demand, need, sends, total>>

Nobody == [by |-> "nobody"]

NoResult == [via |-> "none"]

NoDemand == [asked |-> "none"]

Init ==
    /\ cell = None
    /\ inits = 0
    /\ sent = Nobody
    /\ got = NoResult
    /\ pc = [t \in Threads |-> "idle"]
    /\ req = [t \in Threads |-> DialDataResponse(0)]
    /\ ret = [t \in Threads |-> None]
    /\ calls = [t \in Threads |-> 0]
    /\ demand = NoDemand
    /\ need = None
    /\ sends = 0
    /\ total = 0

(***************************************************************************)
(* The codec on one stream: a message is written, then decoded.            *)
(***************************************************************************)
\* write_into! of Request: into_bytes, then write_length_prefixed.  A
\* panic of into_bytes leaves the stream untouched.
RequestWriteInto(self) ==
    /\ sent = Nobody
    /\ LET Write(b) ==
               /\ sent' = [by |-> "write_into", kind |-> "Request", value |-> self,
                           body |-> b.res,
                           stream |-> IF b.res.ok
                                      THEN write_length_prefixed(b.res.val)
                                      ELSE <<>>]
               /\ cell' = b.cell
               /\ inits' = IF b.cell # cell THEN inits + 1 ELSE inits
       IN  Write(Request_into_bytes(self, cell))
    /\ UNCHANGED <<got, threads, padding>>

\* write_into! of Response.
ResponseWriteInto(self) ==
    /\ sent = Nobody
    /\ sent' = [by |-> "write_into", kind |-> "Response", value |-> self,
                body |-> Ok(Response_into_bytes(self)),
                stream |-> write_length_prefixed(Response_into_bytes(self))]
    /\ UNCHANGED <<cell, inits, got, threads, padding>>

\* DialBack::write_into.
DialBackWriteInto(self) ==
    /\ sent = Nobody
    /\ sent' = [by |-> "write_into", kind |-> "DialBack", value |-> self,
                body |-> DialBack_body(self),
                stream |-> IF DialBack_body(self).ok
                           THEN write_length_prefixed(DialBack_body(self).val)
                           ELSE <<>>]
    /\ UNCHANGED <<cell, inits, got, threads, padding>>

\* The remote peer writes a frame of its own making.
PeerWrite(m) ==
    /\ sent = Nobody
    /\ sent' = [by |-> "peer", kind |-> m.case, value |-> m,
                body |-> Ok(PeerBytes(m)),
                stream |-> write_length_prefixed(PeerBytes(m))]
    /\ UNCHANGED <<cell, inits, got, threads, padding>>

\* Self::from_bytes on the body that was encoded.
FromBytes(kind) ==
    /\ sent # Nobody
    /\ sent.body.ok
    /\ got = NoResult
    /\ got' = [via |-> "from_bytes", kind |-> kind,
               res |-> from_bytes(kind, sent.body.val)]
    /\ UNCHANGED <<cell, inits, sent, threads, padding>>

\* Self::read_from on the stream.
ReadFrom(kind) ==
    /\ sent # Nobody
    /\ sent.body.ok
    /\ got = NoResult
    /\ got' = [via |-> "read_from", kind |-> kind,
               res |-> read_from(kind, sent.stream)]
    /\ UNCHANGED <<cell, inits, sent, threads, padding>>

\* The exchange is over (or the writer panicked); the next one starts on a
\* fresh stream.  CELL lives as long as the process.
NextExchange ==
    /\ sent # Nobody
    /\ got # NoResult \/ ~sent.body.ok
    /\ sent' = Nobody
    /\ got' = NoResult
    /\ UNCHANGED <<cell, inits, threads, padding>>

Next ==
    \/ \E r \in Requests : RequestWriteInto(r)
    \/ \E r \in Responses : ResponseWriteInto(r)
    \/ \E d \in DialBacks : DialBackWriteInto(d)
    \/ \E m \in PeerMessages : PeerWrite(m)
    \/ \E k \in Kinds : FromBytes(k)
    \/ \E k \in Kinds : ReadFrom(k)
    \/ NextExchange

Spec == Init /\ [][Next]_vars

(***************************************************************************)
(* Request::into_bytes called by several threads.  CELL.get_or_init runs   *)
(* the initialiser in one thread; a thread that finds CELL being           *)
(* initialised blocks until it is set.                                     *)
(***************************************************************************)
\* A thread calls into_bytes(request).
Call(t, request) ==
    /\ pc[t] = "idle"
    /\ calls[t] < MaxCalls
    /\ pc' = [pc EXCEPT ![t] = "matches"]
    /\ req' = [req EXCEPT ![t] = request]
    /\ calls' = [calls EXCEPT ![t] = @ + 1]
    /\ UNCHANGED <<cell, inits, ret, channel, padding>>

\* if matches!(self, Data { data_count: 4096 }) ... else make_message_bytes.
Matches(t) ==
    /\ pc[t] = "matches"
    /\ IF IsFullChunk(req[t])
       THEN pc' = [pc EXCEPT ![t] = "get_or_init"] /\ UNCHANGED ret
       ELSE /\ pc' = [pc EXCEPT ![t] = "done"]
            /\ ret' = [ret EXCEPT ![t] = Some(make_message_bytes(req[t]))]
    /\ UNCHANGED <<cell, inits, req, calls, channel, padding>>

\* CELL.get_or_init: the content when CELL is set; otherwise the thread
\* becomes the initialiser, unless another thread is.
GetOrInit(t) ==
    /\ pc[t] = "get_or_init"
    /\ IF cell # None
       THEN /\ pc' = [pc EXCEPT ![t] = "done"]
            /\ ret' = [ret EXCEPT ![t] = Some(Ok(cell[1]))]
       ELSE /\ \A u \in Threads : pc[u] # "init"
            /\ pc' = [pc EXCEPT ![t] = "init"]
            /\ UNCHANGED ret
    /\ UNCHANGED <<cell, inits, req, calls, channel, padding>>

\* The initialiser `move || make_message_bytes(self)` completes and CELL
\* is set.
RunInit(t) ==
    /\ pc[t] = "init"
    /\ cell' = Some(make_message_bytes(req[t]).val)
    /\ inits' = inits + 1
    /\ pc' = [pc EXCEPT ![t] = "get_or_init"]
    /\ UNCHANGED <<req, ret, calls, channel, padding>>

\* into_bytes returns to its caller.
Return(t) ==
    /\ pc[t] = "done"
    /\ pc' = [pc EXCEPT ![t] = "idle"]
    /\ ret' = [ret EXCEPT ![t] = None]
    /\ UNCHANGED <<cell, inits, req, calls, channel, padding>>

NextCache ==
    \/ \E t \in Threads, r \in CacheRequests : Call(t, r)
    \/ \E t \in Threads : Matches(t)
    \/ \E t \in Threads : GetOrInit(t)
    \/ \E t \in Threads : RunInit(t)
    \/ \E t \in Threads : Return(t)

SpecCache == Init /\ [][NextCache]_vars

(***************************************************************************)
(* The padding exchange.  A verifier states its requirement (from_rng, or  *)
(* a peer's own choice); the requester answers with Data requests until    *)
(* their data_count adds up to num_bytes.                                  *)
(***************************************************************************)
\* DialDataRequest::from_rng(addr_idx, rng).
FromRng(addr_idx, words) ==
    /\ demand = NoDemand
    /\ need = None
    /\ demand' = [asked |-> "from_rng", addr_idx |-> addr_idx,
                  request |-> from_rng(addr_idx, words)]
    /\ UNCHANGED <<cell, inits, channel, threads, need, sends, total>>

\* A verifier that is not this implementation states its requirement.
PeerDemand(request) ==
    /\ demand = NoDemand
    /\ need = None
    /\ demand' = [asked |-> "peer", addr_idx |-> request.addr_idx,
                  request |-> request]
    /\ UNCHANGED <<cell, inits, channel, threads, need, sends, total>>

\* The requester takes up the requirement.
StartPadding ==
    /\ demand # NoDemand
    /\ need' = Some(ToNat(demand.request.num_bytes))
    /\ demand' = NoDemand
    /\ sends' = 0
    /\ total' = 0
    /\ UNCHANGED <<cell, inits, channel, threads>>

\* One Request::Data(data_count) is encoded and written.  A panic of
\* into_bytes puts nothing on the stream and counts as no send.
SendData(data_count) ==
    /\ need # None
    /\ total < need[1]
    /\ sends < MaxSends
    /\ LET Write(b) ==
               /\ sent' = [by |-> "write_into", kind |-> "Request",
                           value |-> DialDataResponse(data_count),
                           body |-> b.res,
                           stream |-> IF b.res.ok
                                      THEN write_length_prefixed(b.res.val)
                                      ELSE <<>>]
               /\ cell' = b.cell
               /\ inits' = IF b.cell # cell THEN inits + 1 ELSE inits
               /\ sends' = IF b.res.ok THEN sends + 1 ELSE sends
               /\ total' = IF b.res.ok THEN total + data_count ELSE total
       IN  Write(Request_into_bytes(DialDataResponse(data_count), cell))
    /\ UNCHANGED <<got, threads, demand, need>>

\* The requirement is met, or the requester gives up.
EndPadding ==
    /\ need # None
    /\ total >= need[1] \/ sends = MaxSends
    /\ need' = None
    /\ sends' = 0
    /\ total' = 0
    /\ sent' = Nobody
    /\ UNCHANGED <<cell, inits, got, threads, demand>>

NextPadding ==
    \/ \E i \in Indices, w \in RngDraws : FromRng(i, w)
    \/ \E r \in PeerDemands : PeerDemand(r)
    \/ StartPadding
    \/ \E c \in PaddingCounts : SendData(c)
    \/ EndPadding

SpecPadding == Init /\ [][NextPadding]_vars

(***************************************************************************)
(* Properties.                                                             *)
(***************************************************************************)
\* A value of this implementation was encoded without a panic.
Encoded == sent.by = "write_into" /\ sent.body.ok

\* The last decode went through `via` (from_bytes or read_from).
DecodedAs(via) == got.via = via

\* The message kind that expects a one-of case of the schema.
ExpectedKind(case) ==
    CASE case \in {"dialRequest", "dialDataResponse"} -> "Request"
      [] case \in {"dialResponse", "dialDataRequest"} -> "Response"
      [] OTHER -> "DialBack"

\* The required fields of a case, in the order the decoder checks them.
RequiredFields(case) ==
    CASE case = "dialRequest" -> <<"nonce">>
      [] case = "dialDataResponse" -> <<"data">>
      [] case = "dialResponse" -> <<"status", "addrIdx", "dialStatus">>
      [] case = "dialDataRequest" -> <<"addrIdx", "numBytes">>
      [] OTHER -> <<"nonce">>

\* The required fields a peer's message lacks.
Missing(m) ==
    {RequiredFields(m.case)[i] : i \in {j \in 1..Len(RequiredFields(m.case)) :
                                           m[RequiredFields(m.case)[j]] = None}}

FirstMissing(m) ==
    RequiredFields(m.case)[CHOOSE i \in 1..Len(RequiredFields(m.case)) :
                              /\ m[RequiredFields(m.case)[i]] = None
                              /\ \A j \in 1..(i - 1) :
                                    m[RequiredFields(m.case)[j]] # None]

\* A peer's message of the schema (no raw bytes, no empty one-of).
Schema == sent.by = "peer" /\ sent.kind \notin {"raw", "None"}

HasBadAddr(m) == \E i \in 1..Len(m.addrs) : m.addrs[i] \in BadAddrs

Failed(kind) == ~got.res.ok /\ got.res.err.kind = kind

\* C1: decoding the bytes a valid Request, Response or DialBack encodes to
\* yields the original value, field by field.
C1_RoundTrip ==
    (Encoded /\ DecodedAs("from_bytes") /\ got.kind = sent.kind)
        => got.res = Ok(sent.value)

\* C2: every frame write_into emits for a Data request with data_count in
\* 0..=4096, for a Response or for a DialBack is accepted and decoded by
\* read_from, never refused by the maximum frame length.
C2_ReadFromAdmits ==
    (/\ Encoded
     /\ DecodedAs("read_from")
     /\ got.kind = sent.kind
     /\ sent.kind = "Request" => sent.value.tag = "Data")
        => got.res.ok

\* C3 as stated: the length-prefixed encoding of every Request the encoder
\* accepts (Dial with any address list, Data up to 4096 bytes) and of every
\* Response is at most 4104 bytes long.
C3_EveryFrameWithinCeiling ==
    (Encoded /\ sent.kind \in {"Request", "Response"})
        => Len(sent.stream) <= 4104

\* C3 as amended: the length-prefixed encoding of every Data request with
\* data_count in 0..=4096 and of every Response is at most 4104 bytes long,
\* and that of the Data request with exactly 4096 bytes is 4104 bytes long.
C3_DataAndResponseWithinCeiling ==
    (/\ Encoded
     /\ sent.kind \in {"Request", "Response"}
     /\ sent.kind = "Request" => sent.value.tag = "Data")
        => /\ Len(sent.stream) <= 4104
           /\ (sent.kind = "Request" /\ sent.value.data_count = 4096)
                 => Len(sent.stream) = 4104

C3_FullChunkFrame ==
    /\ Encoded
    /\ sent.kind = "Request"
    /\ sent.value = DialDataResponse(4096)
    /\ Len(sent.stream) = 4104

\* C4: a DialBack, with any nonce or with none, is at most 10 bytes long
\* with its length prefix, and DialBack::write_into never fails its size
\* assertion or overruns its buffer.
C4_DialBackFits ==
    /\ (sent.by = "write_into" /\ sent.kind = "DialBack")
          => sent.body.ok /\ Len(sent.stream) <= 10
    /\ (sent.by = "peer" /\ sent.kind = "dialBack") => Len(sent.stream) <= 10

C4_MaxNonceWritten ==
    /\ Encoded
    /\ sent.kind = "DialBack"
    /\ sent.value.nonce = AllOnes(64)
    /\ Len(sent.stream) = 10

\* C5: from_rng returns a request whose num_bytes lies in [30000, 100000]
\* and whose addr_idx is the index it was given.
C5_FromRngInRange ==
    demand.asked = "from_rng"
        => /\ FitsNat(demand.request.num_bytes)
           /\ ToNat(demand.request.num_bytes) >= 30000
           /\ ToNat(demand.request.num_bytes) <= 100000
           /\ demand.request.addr_idx = demand.addr_idx

C5_UpperEndDrawn ==
    /\ demand.asked = "from_rng"
    /\ ToNat(demand.request.num_bytes) = 100000
    /\ demand.addr_idx = AllOnes(UsizeBits)

\* C6: whatever the interleaving of the threads' into_bytes calls, CELL is
\* initialised at most once, holds the uncached encoding of Data(4096) from
\* then on, and every call on Data(4096) returns exactly those bytes.
C6_CellInitialisedOnce ==
    /\ inits <= 1
    /\ cell = None <=> inits = 0
    /\ cell # None => Ok(cell[1]) = make_message_bytes(DialDataResponse(4096))
    /\ \A t \in Threads :
          (pc[t] = "done" /\ req[t] = DialDataResponse(4096))
              => ret[t] = Some(make_message_bytes(DialDataResponse(4096)))

C6_TwoCallersServed ==
    /\ inits = 1
    /\ \E t, u \in Threads :
          /\ t # u
          /\ pc[t] = "done" /\ req[t] = DialDataResponse(4096)
          /\ pc[u] = "done" /\ req[u] = DialDataResponse(4096)

\* C7 as stated: from_bytes of a zero-length buffer fails with the
\* Malformed error for all three message kinds.
C7_EmptyBufferMalformed ==
    (DecodedAs("from_bytes") /\ sent.body.val = <<>>) => Failed("Malformed")

\* C7 as amended: from_bytes of a zero-length buffer returns no value for
\* any of the three kinds: Request and Response fail with the
\* unexpected-variant error, DialBack with the missing-field error naming
\* nonce.
C7_EmptyBufferFails ==
    (DecodedAs("from_bytes") /\ sent.body.val = <<>>)
        => IF got.kind = "DialBack"
           THEN Failed("MissingField") /\ got.res.err.what = "nonce"
           ELSE Failed("UnexpectedVariant")

C7_EmptyBufferDecoded ==
    /\ DecodedAs("from_bytes")
    /\ sent.body.val = <<>>
    /\ got.kind = "DialBack"
    /\ ~got.res.ok

\* C8 as stated: decoding a message that lacks a required field fails with
\* the missing-field error naming a field it lacks, and decoding a message
\* whose populated one-of case is not one the kind expects fails with the
\* unexpected-variant error.
C8_MissingOrUnexpected ==
    (Schema /\ DecodedAs("from_bytes"))
        => /\ (got.kind = ExpectedKind(sent.kind) /\ Missing(sent.value) # {})
                 => Failed("MissingField") /\ got.res.err.what \in Missing(sent.value)
           /\ (got.kind # "DialBack" /\ sent.kind # "dialBack"
               /\ got.kind # ExpectedKind(sent.kind))
                 => Failed("UnexpectedVariant")

\* C8 as amended: decoding a message that lacks a required field fails with
\* the missing-field error naming the first field it lacks, except that a
\* Dial request holding an address that is no multiaddress fails with the
\* invalid-address error; decoding a message whose populated one-of case is
\* not one the kind expects fails with the unexpected-variant error.
C8_FirstMissingOrUnexpected ==
    (Schema /\ DecodedAs("from_bytes"))
        => /\ (got.kind = ExpectedKind(sent.kind) /\ Missing(sent.value) # {})
                 => IF sent.kind = "dialRequest" /\ HasBadAddr(sent.value)
                    THEN Failed("InvalidAddress")
                    ELSE /\ Failed("MissingField")
                         /\ got.res.err.what = FirstMissing(sent.value)
           /\ (got.kind # "DialBack" /\ sent.kind # "dialBack"
               /\ got.kind # ExpectedKind(sent.kind))
                 => Failed("UnexpectedVariant")

C8_SecondFieldNamed ==
    /\ Schema
    /\ DecodedAs("from_bytes")
    /\ sent.kind = "dialResponse"
    /\ got.kind = "Response"
    /\ Missing(sent.value) = {"addrIdx", "dialStatus"}
    /\ Failed("MissingField")
    /\ got.res.err.what = "addrIdx"

\* C9: Request::from_bytes of a Dial request, its nonce present or absent,
\* fails with the invalid-address error exactly when some element of addrs
\* is no multiaddress; an empty addrs never does.
C9_InvalidAddressIff ==
    (Schema /\ sent.kind = "dialRequest" /\ DecodedAs("from_bytes")
     /\ got.kind = "Request")
        => (Failed("InvalidAddress") <=> HasBadAddr(sent.value))

C9_BadAddressNoNonce ==
    /\ Schema
    /\ sent.kind = "dialRequest"
    /\ DecodedAs("from_bytes")
    /\ got.kind = "Request"
    /\ sent.value.nonce = None
    /\ HasBadAddr(sent.value)
    /\ Failed("InvalidAddress")

\* C10: a Data request that is put on the stream carries at most 4096
\* bytes (a larger data_count panics and puts nothing there), so k sends
\* carry at most 4096 * k bytes: a requirement is met after no fewer than
\* ceil(num_bytes / 4096) sends, 25 for 100000 bytes, and 16 for 65536 bytes
\* only if each is a full chunk.
C10_PaddingCap ==
    /\ (sent.by = "write_into" /\ sent.kind = "Request" /\ sent.value.tag = "Data")
          => IF sent.value.data_count <= 4096
             THEN sent.body.ok /\ Len(sent.stream) <= 4104
             ELSE ~sent.body.ok /\ sent.stream = <<>>
    /\ total <= 4096 * sends
    /\ (need # None /\ total >= need[1])
          => /\ sends >= (need[1] + 4095) \div 4096
             /\ need[1] = 100000 => sends >= 25
             /\ need[1] = 65536 => sends >= 16 /\ (sends = 16 => total = 65536)

C10_SixteenFullChunks ==
    /\ need = Some(65536)
    /\ sends = 16
    /\ total = 65536
    /\ sent.value = DialDataResponse(4096)

====
